---- MODULE Spec2Model ----
(***************************************************************************)
(* Model of magpie's othello bitboard: the build-time generator of the     *)
(* rotation tables (build/gen_constants/mod.rs), the Bitboard transform    *)
(* engine and its iterators (src/othello/bitboard.rs) and Stone            *)
(* (src/othello/stone.rs).                                                 *)
(*                                                                         *)
(* A u64 is represented by the set of the indices (0..63) of its set bits: *)
(* | is \cup, & is \cap, ^ is the symmetric difference, count_ones is the  *)
(* cardinality.  No 64-bit value is ever held as a TLA+ integer.           *)
(***************************************************************************)
EXTENDS Integers, Sequences, FiniteSets

\* ---------------------------------------------------------------- bounds
\* boards handed to From<u64> have at most MaxBits set bits (plus the
\* boards of the source's own examples)
MaxBits == 1
\* length of a chain of cw / ccw / flip180 calls
MaxOps == 2
\* number of successive Stone::flip calls
MaxFlips == 2

\* ------------------------------------------------------------ u64 helpers
BitIdx == 0..63

RECURSIVE Pow2(_)
Pow2(n) == IF n = 0 THEN 1 ELSE 2 * Pow2(n - 1)

\* (x >> sh) & 0xFF as usize
ShrAndFF(x, sh) ==
    LET B(i) == IF (sh + i) \in x THEN Pow2(i) ELSE 0
    IN  B(0) + B(1) + B(2) + B(3) + B(4) + B(5) + B(6) + B(7)

\* (byte >> col) & 1 != 0
ByteBit(byte, col) == ((byte \div Pow2(col)) % 2) # 0

\* u64::leading_zeros
leading_zeros(x) ==
    IF x = {} THEN 64
    ELSE 63 - (CHOOSE i \in x : \A j \in x : j <= i)

\* u64::trailing_zeros
trailing_zeros(x) ==
    IF x = {} THEN 64
    ELSE CHOOSE i \in x : \A j \in x : i <= j

\* a ^ b
Xor(a, b) == (a \ b) \cup (b \ a)

\* format!("0x{val:016x}"): the 16 hex digits, most significant first
FormatHex(x) ==
    [i \in 1..16 |->
        LET lo == 4 * (16 - i)
            B(k) == IF (lo + k) \in x THEN Pow2(k) ELSE 0
        IN  B(0) + B(1) + B(2) + B(3)]

\* the value of a 16-digit hexadecimal literal
ParseHex(d) ==
    {4 * (16 - i) + k : i \in 1..16, k \in 0..3} \cap
    {n \in BitIdx : ByteBit(d[16 - (n \div 4)], n % 4)}

\* ------------------------------------------- build/gen_constants/mod.rs
cw_val_swapped(row, byte) ==
    UNION {IF ByteBit(byte, col) THEN {col * 8 + row} ELSE {} : col \in 0..7}

\* cw_val |= 1u64 << ((7 - col) * 8 + row), over col in 0..8
cw_val(row, byte) ==
    UNION {IF ByteBit(byte, col) THEN {(7 - col) * 8 + row} ELSE {} : col \in 0..7}

ccw_val_noscale(row, byte) ==
    UNION {IF ByteBit(byte, col) THEN {col + (7 - row)} ELSE {} : col \in 0..7}

\* ccw_val |= 1u64 << (col * 8 + (7 - row)), over col in 0..8
ccw_val(row, byte) ==
    UNION {IF ByteBit(byte, col) THEN {col * 8 + (7 - row)} ELSE {} : col \in 0..7}

\* returns (ccw_table, cw_table)
generate_rotation_tables ==
    [ccw_table |-> [row \in 0..7 |-> [byte \in 0..255 |-> ccw_val(row, byte)]],
     cw_table  |-> [row \in 0..7 |-> [byte \in 0..255 |-> cw_val(row, byte)]]]

\* One row of a table as written: "    [" 256 literals "],\n"
TableRowText(t, row) == [byte \in 0..255 |-> FormatHex(t[row][byte])]

\* The text of write_rotation_tables(), line by line.  A line is named
\* <<what, row>>; the literals of row line <<"ccw [", row>> are
\* TableRowText(ccw_table, row), and likewise for cw.
write_rotation_tables ==
    << <<"pub const CCW_ROTATION_TABLE: [[u64; 256]; 8] = [", 0>> >>
    \o [r \in 1..8 |-> <<"ccw [", r - 1>>]
    \o << <<"];", 0>>, <<"", 0>> >>
    \o << <<"pub const CW_ROTATION_TABLE: [[u64; 256]; 8] = [", 0>> >>
    \o [r \in 1..8 |-> <<"cw [", r - 1>>]
    \o << <<"];", 1>> >>

\* the two writeln! calls before the tables write one opaque text each
\* (include_str!("./common.rs") and shift_rays::generate())
common == << <<"common", 0>> >>
shift_rays == << <<"shift_rays", 0>> >>

\* what writeln!(&mut output, "{text}") hands to the file: the text's lines,
\* then the newline writeln! appends
Writeln(text) == text \o << <<"\n", 0>> >>

\* gen.rs after a run that completed all three writeln! calls
FullOutput == Writeln(common) \o Writeln(shift_rays) \o Writeln(write_rotation_tables)

\* --------------------------------------------------- generated constants
\* the constants the engine is compiled against: the literals of gen.rs,
\* read back as u64 values
CCW_ROTATION_TABLE ==
    [row \in 0..7 |-> [byte \in 0..255 |->
        ParseHex(TableRowText(generate_rotation_tables.ccw_table, row)[byte])]]

CW_ROTATION_TABLE ==
    [row \in 0..7 |-> [byte \in 0..255 |->
        ParseHex(TableRowText(generate_rotation_tables.cw_table, row)[byte])]]

\* the 64 single-bit masks, bit 63 down to bit 0
POSITIONS == [k \in 1..64 |-> {64 - k}]

\* ------------------------------------------------ src/othello/bitboard.rs
is_empty(b) == b = {}

count_set(b) == Cardinality(b)

bits_hot_only(b) == SelectSeq([k \in 1..64 |-> b \cap POSITIONS[k]], LAMBDA m : m # {})

\* POSITIONS.iter().map(move |m| self & *m)
bits(b) == [k \in 1..64 |-> b \cap POSITIONS[k]]

\* HotBits { remaining: self.count_set(), bitboard: self }.into_iter()
hot_bits(b) == [remaining |-> count_set(b), bitboard |-> b]

cw_with_ccw_table(b) ==
    UNION {CCW_ROTATION_TABLE[row][ShrAndFF(b, row * 8)] : row \in 0..7}

\* out |= CCW_ROTATION_TABLE[row][byte], over row in 0..8
ccw(b) == UNION {CCW_ROTATION_TABLE[row][ShrAndFF(b, row * 8)] : row \in 0..7}

\* out |= CW_ROTATION_TABLE[row][byte], over row in 0..8
cw(b) == UNION {CW_ROTATION_TABLE[row][ShrAndFF(b, row * 8)] : row \in 0..7}

flip180_swap_bytes(b) == {8 * (7 - (i \div 8)) + (i % 8) : i \in b}

\* self.0.reverse_bits()
flip180(b) == {63 - i : i \in b}

\* (self.ccw(), self.flip180(), self.cw())
rotations(b) == <<ccw(b), flip180(b), cw(b)>>

Display_no_rev(b) ==
    [l \in 1..8 |->
        LET rank == l - 1
        IN  [k \in 1..16 |->
                IF k % 2 = 0 THEN " "
                ELSE LET file == (k - 1) \div 2
                         pos  == rank * 8 + file
                         mask == {63 - pos}
                     IN  IF b \cap mask # {} THEN "1" ELSE "."]]

\* impl Display: the lines written, in order; each line is the characters
\* written by write!(f, "{} ", ch) for file in 0..8
Display(b) ==
    [l \in 1..8 |->
        LET rank == 8 - l
        IN  [k \in 1..16 |->
                IF k % 2 = 0 THEN " "
                ELSE LET file == (k - 1) \div 2
                         pos  == rank * 8 + file
                         mask == {63 - pos}
                     IN  IF b \cap mask # {} THEN "1" ELSE "."]]

next_position_lowest(it) == {trailing_zeros(it.bitboard)}

\* 1 << (63 - self.bitboard.raw().leading_zeros())
next_position(it) == {63 - leading_zeros(it.bitboard)}

\* -------------------------------------------------- src/othello/stone.rs
Stone == {"Black", "White"}

flip_to_white(s) == "White"

flip(s) == IF s = "Black" THEN "White" ELSE "Black"

next_no_decrement(it, profile) ==
    IF is_empty(it.bitboard)
    THEN [it |-> it, out |-> <<>>, panic |-> FALSE]
    ELSE LET position == next_position(it)
         IN  [it    |-> [remaining |-> it.remaining,
                         bitboard  |-> Xor(it.bitboard, position)],
              out   |-> <<position>>,
              panic |-> FALSE]

\* HotBitsIntoIterator::next.  remaining is a u8: `self.remaining -= 1` at 0
\* panics in a build with overflow checks ("debug") and wraps to 255 in one
\* without ("release").  out is <<>> for None and, for
\* Some(Position::new_unchecked(position)), <<position>>: a Position is held
\* as the raw u64 it was built from.
next(it, profile) ==
    IF is_empty(it.bitboard)
    THEN [it |-> it, out |-> <<>>, panic |-> FALSE]
    ELSE IF it.remaining = 0 /\ profile = "debug"
    THEN [it |-> it, out |-> <<>>, panic |-> TRUE]
    ELSE LET position == next_position(it)
         IN  [it    |-> [remaining |-> (it.remaining + 255) % 256,
                         bitboard  |-> Xor(it.bitboard, position)],
              out   |-> <<position>>,
              panic |-> FALSE]

\* ExactSizeIterator::len
len(it) == it.remaining

\* ------------------------------------------------------------------ inputs
RECURSIVE SmallBoards(_)
SmallBoards(k) ==
    IF k = 0 THEN {{}}
    ELSE LET S == SmallBoards(k - 1)
         IN  S \cup {s \cup {i} : s \in S, i \in BitIdx}

\* the boards of the source's doc examples and test: u64::MAX,
\* u64::from(u32::MAX), and the board of test_bitboard_rotations
ExampleBoards == {BitIdx, 0..31, {57, 56, 48, 42}}

Boards == SmallBoards(MaxBits) \cup ExampleBoards

Profiles == {"debug", "release"}

\* ------------------------------------------------------------------- state
VARIABLES
    genpc,      \* generate_constants: the statement it is at
    genres,     \* generate_constants: "running", "Ok", "Err" or "Panic"
    file,       \* OUT_DIR/gen.rs
    made,       \* the caller has built its Bitboard
    board,      \* the Bitboard the caller built with From<u64>
    cur,        \* the value of the call chain board.op().op()...
    path,       \* the calls of that chain
    rots,       \* the tuple returned by board.rotations(), <<>> before the call
    iter,       \* <<the HotBitsIntoIterator>> of board.hot_bits(), <<>> before
    yielded,    \* the Positions iter has returned in Some, in order (raw)
    last,       \* what the last iter.next() did: "Some", "None", "Panic"
    bitsOut,    \* board.bits() collected, <<>> before the call
    shown,      \* the lines of format!("{board}"), <<>> before the call
    stone0,     \* a Stone
    stone,      \* stone0 after flips calls of flip()
    flips

genvars == <<genpc, genres, file>>
rotvars == <<cur, path, rots>>
itervars == <<iter, yielded, last, bitsOut>>
stonevars == <<stone0, stone, flips>>
vars == <<genpc, genres, file, made, board, cur, path, rots, iter, yielded, last,
          bitsOut, shown, stone0, stone, flips>>

NoFile == [exists |-> FALSE, fresh |-> FALSE, lines |-> <<>>]
\* a gen.rs left by an earlier, complete build
StaleFile == [exists |-> TRUE, fresh |-> FALSE, lines |-> FullOutput]

InitRuntime ==
    /\ made = FALSE
    /\ board = {}
    /\ cur = {}
    /\ path = <<>>
    /\ rots = <<>>
    /\ iter = <<>>
    /\ yielded = <<>>
    /\ last = "none"
    /\ bitsOut = <<>>
    /\ shown = <<>>
    /\ flips = 0
    /\ stone = stone0

\* before the build script runs
Init ==
    /\ genpc = "env"
    /\ genres = "running"
    /\ file \in {NoFile, StaleFile}
    /\ stone0 = "Black"
    /\ InitRuntime

\* the crate as built: generate_constants returned Ok
Built ==
    /\ genpc = "done"
    /\ genres = "Ok"
    /\ file = [exists |-> TRUE, fresh |-> TRUE, lines |-> FullOutput]

InitBuilt ==
    /\ Built
    /\ stone0 = "Black"
    /\ InitRuntime

\* as InitBuilt, with either Stone
InitView ==
    /\ Built
    /\ stone0 \in Stone
    /\ InitRuntime

\* --------------------------------------------------- generate_constants
\* env::var("OUT_DIR").unwrap()
ReadOutDir ==
    /\ genpc = "env"
    /\ \E set \in BOOLEAN :
          IF set THEN genpc' = "create" /\ genres' = genres
                 ELSE genpc' = "done" /\ genres' = "Panic"
    /\ UNCHANGED <<file, made, board, shown>>
    /\ UNCHANGED <<rotvars, itervars, stonevars>>

\* File::create(path).unwrap(): creates or truncates gen.rs
CreateFile ==
    /\ genpc = "create"
    /\ \E ok \in BOOLEAN :
          IF ok THEN /\ file' = [exists |-> TRUE, fresh |-> TRUE, lines |-> <<>>]
                     /\ genpc' = "common"
                     /\ genres' = genres
                ELSE /\ file' = file
                     /\ genpc' = "done"
                     /\ genres' = "Panic"
    /\ UNCHANGED <<made, board, shown>>
    /\ UNCHANGED <<rotvars, itervars, stonevars>>

\* writeln!(&mut output, "{text}")?: the write either completes, or fails
\* after any proper prefix of it reached the file and `?` returns the error
WritelnOrReturn(at, text, then, res) ==
    /\ genpc = at
    /\ LET w == Writeln(text)
       IN  \E k \in 0..Len(w) :
              IF k = Len(w)
              THEN /\ file' = [file EXCEPT !.lines = @ \o w]
                   /\ genpc' = then
                   /\ genres' = res
              ELSE /\ file' = [file EXCEPT !.lines = @ \o SubSeq(w, 1, k)]
                   /\ genpc' = "done"
                   /\ genres' = "Err"
    /\ UNCHANGED <<made, board, shown>>
    /\ UNCHANGED <<rotvars, itervars, stonevars>>

WriteCommon == WritelnOrReturn("common", common, "shift_rays", genres)

WriteShiftRays == WritelnOrReturn("shift_rays", shift_rays, "tables", genres)

\* the last writeln!, then Ok(())
WriteRotationTables == WritelnOrReturn("tables", write_rotation_tables, "done", "Ok")

generate_constants ==
    \/ ReadOutDir
    \/ CreateFile
    \/ WriteCommon
    \/ WriteShiftRays
    \/ WriteRotationTables

\* ------------------------------------------------------- calls on a board
\* impl From<u64> for Bitboard, once per run; the engine exists once the
\* build passed
From ==
    /\ genres = "Ok"
    /\ ~made
    /\ made' = TRUE
    /\ \E raw \in Boards :
          /\ board' = raw
          /\ cur' = raw
    /\ path' = <<>>
    /\ rots' = <<>>
    /\ iter' = <<>>
    /\ yielded' = <<>>
    /\ last' = "none"
    /\ bitsOut' = <<>>
    /\ shown' = <<>>
    /\ UNCHANGED <<genvars, stonevars>>

Chain(op, result) ==
    /\ made
    /\ Len(path) < MaxOps
    /\ cur' = result
    /\ path' = Append(path, op)
    /\ UNCHANGED <<genvars, made, board, rots, itervars, shown, stonevars>>

Call_cw == Chain("cw", cw(cur))

Call_ccw == Chain("ccw", ccw(cur))

Call_flip180 == Chain("flip180", flip180(cur))

Call_rotations ==
    /\ made
    /\ rots' = rotations(board)
    /\ UNCHANGED <<genvars, made, board, cur, path, itervars, shown, stonevars>>

Call_hot_bits ==
    /\ made
    /\ iter' = <<hot_bits(board)>>
    /\ yielded' = <<>>
    /\ last' = "none"
    /\ UNCHANGED <<genvars, made, board, rotvars, bitsOut, shown, stonevars>>

Call_next ==
    /\ made
    /\ iter # <<>>
    /\ last # "Panic"
    /\ \E profile \in Profiles :
          LET r == next(iter[1], profile)
          IN  /\ iter' = <<r.it>>
              /\ yielded' = yielded \o r.out
              /\ last' = IF r.panic THEN "Panic"
                         ELSE IF r.out = <<>> THEN "None" ELSE "Some"
    /\ UNCHANGED <<genvars, made, board, rotvars, bitsOut, shown, stonevars>>

Call_bits ==
    /\ made
    /\ bitsOut' = bits(board)
    /\ UNCHANGED <<genvars, made, board, rotvars, iter, yielded, last, shown, stonevars>>

Call_fmt ==
    /\ made
    /\ shown' = Display(board)
    /\ UNCHANGED <<genvars, made, board, rotvars, itervars, stonevars>>

Call_flip ==
    /\ flips < MaxFlips
    /\ stone' = flip(stone)
    /\ flips' = flips + 1
    /\ UNCHANGED <<genvars, made, board, rotvars, itervars, shown, stone0>>

\* ---------------------------------------------------------- specifications
\* the build script, then the rotations of the engine it built
Next ==
    \/ generate_constants
    \/ From
    \/ Call_cw
    \/ Call_ccw
    \/ Call_flip180
    \/ Call_rotations

Spec == Init /\ [][Next]_vars

\* the bit decompositions
NextIter ==
    \/ From
    \/ Call_hot_bits
    \/ Call_next
    \/ Call_bits

SpecIter == InitBuilt /\ [][NextIter]_vars

\* formatting, and Stone
NextView ==
    \/ From
    \/ Call_fmt
    \/ Call_flip

SpecView == InitView /\ [][NextView]_vars

\* ------------------------------------------------------------------ claims
\* the board of test_bitboard_rotations
TestBoard == {57, 56, 48, 42}

\* C1: rotating counterclockwise then clockwise, and clockwise then
\* counterclockwise, gives the board back: cw(ccw(b)) = b and ccw(cw(b)) = b.
C1_RotateRoundTrip ==
    /\ path = <<"ccw", "cw">> => cur = board
    /\ path = <<"cw", "ccw">> => cur = board

C1_Witness ==
    /\ path = <<"ccw", "cw">>
    /\ board = TestBoard
    /\ cur = board
    /\ ccw(board) # board

\* C2: two clockwise rotations, two counterclockwise rotations and the
\* 180 degree reflection (bit i to bit 63 - i) agree.
C2_DoubleRotationIs180 ==
    /\ path = <<"cw", "cw">> => cur = flip180(board)
    /\ path = <<"ccw", "ccw">> => cur = flip180(board)
    /\ path = <<"flip180">> => cur = {63 - i : i \in board}

C2_Witness ==
    /\ path = <<"ccw", "ccw">>
    /\ board = TestBoard
    /\ cur = {6, 7, 15, 21}

\* C3: each of the three boards returned by rotations() (ccw, 180, cw) has as
\* many set bits as the board itself.
C3_RotationsPreserveCount ==
    rots # <<>> =>
        /\ count_set(rots[1]) = count_set(board)
        /\ count_set(rots[2]) = count_set(board)
        /\ count_set(rots[3]) = count_set(board)

C3_Witness ==
    /\ rots # <<>>
    /\ board = BitIdx
    /\ count_set(rots[1]) = 64
    /\ count_set(rots[3]) = 64

X8000000000000000 == <<8, 0, 0, 0, 0, 0, 0, 0, 0, 0, 0, 0, 0, 0, 0, 0>>
X0100000000000000 == <<0, 1, 0, 0, 0, 0, 0, 0, 0, 0, 0, 0, 0, 0, 0, 0>>
X0000000000000080 == <<0, 0, 0, 0, 0, 0, 0, 0, 0, 0, 0, 0, 0, 0, 8, 0>>

\* C4 as stated: the clockwise rotation of 0x8000000000000000 is
\* 0x0100000000000000 and its counterclockwise rotation is 0x0000000000000080.
C4_Original ==
    board = ParseHex(X8000000000000000) =>
        /\ path = <<"cw">> => FormatHex(cur) = X0100000000000000
        /\ path = <<"ccw">> => FormatHex(cur) = X0000000000000080

\* C4 as amended: the clockwise rotation of 0x8000000000000000 (bit 63, which
\* is row 7, column 7 of the rotation tables) is 0x0000000000000080 (bit 7) and
\* its counterclockwise rotation is 0x0100000000000000 (bit 56).
C4_CornerRotations ==
    board = ParseHex(X8000000000000000) =>
        /\ path = <<"cw">> => FormatHex(cur) = X0000000000000080
        /\ path = <<"ccw">> => FormatHex(cur) = X0100000000000000

C4_Witness ==
    /\ board = {63}
    /\ path = <<"cw">>
    /\ cur = {7}

\* the number of Some(_) that calls of next() on `it` will still return
RECURSIVE StillToYield(_)
StillToYield(it) ==
    LET r == next(it, "release")
    IN  IF r.out = <<>> THEN 0 ELSE 1 + StillToYield(r.it)

\* C5: hot_bits() has exactly count_set(b) elements, and before any call and
\* after every call of next() its len() is the number of elements it will
\* still yield; the counter is never decremented below 0.
C5_HotBitsLenExact ==
    iter # <<>> =>
        /\ len(iter[1]) = StillToYield(iter[1])
        /\ Len(yielded) + len(iter[1]) = count_set(board)
        /\ last # "Panic"
        /\ last = "None" => len(iter[1]) = 0 /\ Len(yielded) = count_set(board)

C5_Witness ==
    /\ iter # <<>>
    /\ board = TestBoard
    /\ last = "None"
    /\ Len(yielded) = 4
    /\ len(iter[1]) = 0

\* the index of the set bit of a single-bit value
BitOf(p) == CHOOSE i \in p : TRUE

\* C6: hot_bits() yields exactly the set bits of b, each once, most
\* significant first: every yielded Position has one bit set, the indices are
\* strictly decreasing, and the OR of all of them is b.
C6_HotBitsDecompose ==
    iter # <<>> =>
        /\ \A k \in 1..Len(yielded) : Cardinality(yielded[k]) = 1
        /\ \A j, k \in 1..Len(yielded) :
              j < k => BitOf(yielded[j]) > BitOf(yielded[k])
        /\ UNION {yielded[k] : k \in 1..Len(yielded)} \cup iter[1].bitboard = board
        /\ last = "None" => UNION {yielded[k] : k \in 1..Len(yielded)} = board

C6_Witness ==
    /\ iter # <<>>
    /\ board = 0..31
    /\ last = "None"
    /\ Len(yielded) = 32
    /\ yielded[1] = {31}
    /\ yielded[32] = {0}

\* C7: bits() yields 64 elements whatever the board; element k (k = 0..63) is
\* the board intersected with the mask of bit 63 - k: that mask when the bit is
\* set, the empty board otherwise.
C7_BitsAlways64 ==
    bitsOut # <<>> =>
        /\ Len(bitsOut) = 64
        /\ \A k \in 0..63 :
              bitsOut[k + 1] = IF (63 - k) \in board THEN {63 - k} ELSE {}

C7_Witness ==
    /\ bitsOut # <<>>
    /\ board = {5}
    /\ Len(bitsOut) = 64
    /\ bitsOut[59] = {5}
    /\ bitsOut[1] = {}

\* the glyph of file f (0..7) in line l (1..8) of the formatted board
Glyph(l, f) == shown[l][2 * f + 1]

SetGlyphs(l) == Cardinality({f \in 0..7 : Glyph(l, f) = "1"})

\* C8 as stated: Display gives 8 lines; the first shows rank 7, the squares at
\* bit indices 56-63 of the mask, the last shows rank 0 (bit indices 0-7); a set
\* square is one glyph and a clear square another.
C8_Original ==
    shown # <<>> =>
        /\ Len(shown) = 8
        /\ SetGlyphs(1) = Cardinality(board \cap 56..63)
        /\ SetGlyphs(8) = Cardinality(board \cap 0..7)

\* C8 as amended: Display gives 8 lines; the first shows rank 7, which is bits
\* 7 down to 0 of the mask (square 56 + f is bit 7 - f), and the last shows
\* rank 0, bits 63 down to 56; line l, file f shows bit 8l - 1 - f, "1" when it
\* is set and "." when it is clear.
C8_DisplayRanks ==
    shown # <<>> =>
        /\ Len(shown) = 8
        /\ \A f \in 0..7 : Glyph(1, f) = IF (7 - f) \in board THEN "1" ELSE "."
        /\ \A f \in 0..7 : Glyph(8, f) = IF (63 - f) \in board THEN "1" ELSE "."
        /\ \A l \in 1..8, f \in 0..7 :
              Glyph(l, f) = IF (8 * l - 1 - f) \in board THEN "1" ELSE "."

C8_Witness ==
    /\ shown # <<>>
    /\ board = {63}
    /\ Glyph(8, 0) = "1"
    /\ SetGlyphs(1) = 0

\* gen.rs holds a started, unfinished pair of rotation tables
PartialTables ==
    /\ file.exists
    /\ file.fresh
    /\ \E k \in 1..Len(file.lines) : file.lines[k] = write_rotation_tables[1]
    /\ \A k \in 1..Len(file.lines) :
          file.lines[k] # write_rotation_tables[Len(write_rotation_tables)]

\* C9: when the generator cannot finish emitting, generate_constants fails (Err
\* or panic) and leaves no partially written table output behind; it returns Ok
\* only after both tables are written in full.
C9_AbortLeavesNoPartialTable ==
    /\ genres = "Ok" => file.exists /\ file.lines = FullOutput
    /\ genres \in {"Err", "Panic"} => ~PartialTables

\* C10: flip has no fixed point and is its own inverse.
C10_FlipInvolution ==
    /\ flips = 1 => stone # stone0
    /\ flips = 2 => stone = stone0

C10_Witness ==
    /\ flips = 2
    /\ stone0 = "White"
    /\ stone = "White"

====
